---- MODULE Spec2Model ----
(***************************************************************************)
(* A model of pyadbc (src/pyadbc/pyadbc.py): design by contract for Python *)
(* classes.  The decorators @requires, @ensures, @old, @invariant and      *)
(* @dbcinherit build _PyADBCMethodCallWrapper objects at class-definition  *)
(* time; calling a decorated method runs _PyADBCMethodCallWrapper.__call__.*)
(*                                                                         *)
(* The classes are those of src/tests/test_pyadbc.py reduced to two        *)
(* fields: a base class A (List) with a constructor and two methods, and a *)
(* subclass B (CoolList) overriding both methods.                          *)
(***************************************************************************)
EXTENDS Integers, Sequences, FiniteSets, TLC

\* Bounds of the model.
MaxAttach == 3      \* decorator applications during class definition
MaxCalls == 2       \* method calls made on one receiver

---------------------------------------------------------------------------
\* The host object model: classes, method names, class bodies.

Classes == {"A", "B"}
Subclasses == {"B"}
Names == {"__init__", "m", "n"}
NameOrder == <<"__init__", "m", "n">>

\* klass.__bases__ (with object left out: it carries no wrapper).
Bases(c) == IF c = "B" THEN <<"A">> ELSE << >>

\* The names a class body defines: A defines all three, B overrides m and n.
Defines(c) == IF c = "A" THEN {"__init__", "m", "n"} ELSE {"m", "n"}

Threads == {1, 2}
MainThread == {1}

\* Constructor arguments tried (the capacity of the list).
CapArgs == {-1, 1}

\* Function objects.  A bare function is named by the class body that
\* defines it; a call_wrapper closure carries its attribute cw and the
\* wrapper its body calls (the value of the closure variable cw).
NoFn == [kind |-> "none", cls |-> "", name |-> "", cw |-> 0, callcw |-> 0]
Bare(c, n) == [kind |-> "bare", cls |-> c, name |-> n, cw |-> 0, callcw |-> 0]
call_wrapper(attr, target) ==
    [kind |-> "cwrap", cls |-> "", name |-> "", cw |-> attr, callcw |-> target]

\* A decorated function whose call_wrapper.cw attribute was never set.
HasCw_never(f) == FALSE

\* hasattr(f, 'cw')
HasCw(f) == f.kind = "cwrap"

\* f is a call_wrapper closure: calling it calls its wrapper.
IsCallWrapper(f) == f.kind = "cwrap"

\* A merge in which the value already present wins on a duplicate key.
DictUpdate_keep(d, e) ==
    [k \in (DOMAIN d) \cup (DOMAIN e) |-> IF k \in DOMAIN d THEN d[k] ELSE e[k]]

\* A dictionary is a function from a finite set of keys.
EmptyDict == [k \in {} |-> 0]
DictUpdate(d, e) ==
    [k \in (DOMAIN d) \cup (DOMAIN e) |-> IF k \in DOMAIN e THEN e[k] ELSE d[k]]

\* The list object that is the default value of the parameter olds of
\* _PyADBCMethodCallWrapper.__init__: one object, made when the def runs.
DefaultOlds == 1

\* _Condition(condition, inv): att names the decorator application that
\* made the object.
Condition(p, inv, att) == [pred |-> p, inv |-> inv, att |-> att]

\* Predicates and capture functions the decorators are given.
RequiresArgs == {<<"lt">>}
EnsuresArgs == {<<"inc">>}
InvariantArgs == {<<"cap">>}
OldArgs == {"size"}
AttachNames == {"m"}

\* Further predicates and capture functions: a precondition that reads the
\* old values, a predicate whose result is a number, a second capture
\* function writing the key of the first.
RequiresValueArgs == {<<"same">>, <<"sz">>}
EnsuresValueArgs == {<<"inc">>, <<"sz">>}
OldValueArgs == {"size", "room"}

VARIABLES
    klass,      \* klass[c][n]: the function in the __dict__ of class c under n
    cws,        \* the _PyADBCMethodCallWrapper objects, by identity 1..Len
    lists,      \* the list objects that wrappers' olds attributes refer to
    applied,    \* the decorator applications so far, in order
    running,    \* class definition is over: instances are in use
    obj,        \* obj[t]: the receiver thread t works on
    stack,      \* stack[t]: the frames of the calls thread t is in, top first
    ncalls      \* ncalls[t]: calls thread t has made on its receiver

vars == <<klass, cws, lists, applied, running, obj, stack, ncalls>>

nattach == Len(applied)

\* One decorator application: the decorator, the class and the method name.
Application(op, c, n) == [op |-> op, cls |-> c, name |-> n]

NoObj == [cls |-> "", init |-> FALSE, capacity |-> 0, size |-> 0]

\* _PyADBCMethodCallWrapper.__init__: preconds and postconds are copied,
\* olds is kept by reference.  copyof is no attribute of the object: it
\* names the wrapper this one was deep-copied from, 0 for none.
NewWrapper(method, pre, post, oldsRef) ==
    [method |-> method, preconds |-> pre, postconds |-> post,
     olds |-> oldsRef, oldvals |-> EmptyDict, copyof |-> 0]

Init ==
    /\ klass = [c \in Classes |->
                  [n \in Names |-> IF n \in Defines(c) THEN Bare(c, n) ELSE NoFn]]
    /\ cws = << >>
    /\ lists = << << >> >>
    /\ applied = << >>
    /\ running = FALSE
    /\ obj = [t \in Threads |-> NoObj]
    /\ stack = [t \in Threads |-> << >>]
    /\ ncalls = [t \in Threads |-> 0]

---------------------------------------------------------------------------
\* Class definition time: the decorators.

\* getattr(c, n) in the class dictionaries k.
RECURSIVE GetattrIn(_, _, _, _)
Getattr(k, c, n) ==
    IF k[c][n].kind # "none" THEN k[c][n] ELSE GetattrIn(k, Bases(c), 1, n)
GetattrIn(k, bs, i, n) ==
    IF i > Len(bs) THEN NoFn
    ELSE IF Getattr(k, bs[i], n).kind # "none" THEN Getattr(k, bs[i], n)
    ELSE GetattrIn(k, bs, i + 1, n)

\* The conditions list a decorator call builds from its arguments.
Conditions(ps, inv, att) == [i \in 1..Len(ps) |-> Condition(ps[i], inv, att)]

\* The variable cw of method_wrapper after its if statement.
method_cw(ws, method) == IF HasCw(method) THEN method.cw ELSE Len(ws) + 1

\* A requires.method_wrapper that puts the new conditions in front, as
\* nested decorators would check them.
requires_wrap_prepend(ws, method, conditions) ==
    IF HasCw(method)
    THEN [ws EXCEPT ![method.cw].preconds = conditions \o @]
    ELSE Append(ws, NewWrapper(method, conditions, << >>, DefaultOlds))

\* requires.method_wrapper: the wrapper objects after its if statement.
requires_wrap(ws, method, conditions) ==
    IF HasCw(method)
    THEN [ws EXCEPT ![method.cw].preconds = @ \o conditions]
    ELSE Append(ws, NewWrapper(method, conditions, << >>, DefaultOlds))

\* ensures.method_wrapper: the wrapper objects after its if statement.
ensures_wrap(ws, method, conditions) ==
    IF HasCw(method)
    THEN [ws EXCEPT ![method.cw].postconds = @ \o conditions]
    ELSE Append(ws, NewWrapper(method, << >>, conditions, DefaultOlds))

\* old.method_wrapper: the wrapper objects and the list objects after its
\* if statement.
old_wrap(ws, ls, method, oldfun) ==
    IF HasCw(method)
    THEN [cws |-> ws, lists |-> [ls EXCEPT ![ws[method.cw].olds] = Append(@, oldfun)]]
    ELSE [cws |-> Append(ws, NewWrapper(method, << >>, << >>, Len(ls) + 1)),
          lists |-> Append(ls, <<oldfun>>)]

\* @requires(*ps) applied to the function that class c defines under n.
Requires(c, n, ps) ==
    /\ ~running
    /\ nattach < MaxAttach
    /\ klass[c][n].kind # "none"
    /\ LET method == klass[c][n]
           cw == method_cw(cws, method)
       IN /\ cws' = requires_wrap(cws, method, Conditions(ps, FALSE, nattach + 1))
          /\ klass' = [klass EXCEPT ![c][n] = call_wrapper(cw, cw)]
    /\ applied' = Append(applied, Application("requires", c, n))
    /\ UNCHANGED <<lists, running, obj, stack, ncalls>>

\* @ensures(*ps) applied to the function that class c defines under n.
Ensures(c, n, ps) ==
    /\ ~running
    /\ nattach < MaxAttach
    /\ klass[c][n].kind # "none"
    /\ LET method == klass[c][n]
           cw == method_cw(cws, method)
       IN /\ cws' = ensures_wrap(cws, method, Conditions(ps, FALSE, nattach + 1))
          /\ klass' = [klass EXCEPT ![c][n] = call_wrapper(cw, cw)]
    /\ applied' = Append(applied, Application("ensures", c, n))
    /\ UNCHANGED <<lists, running, obj, stack, ncalls>>

\* @old(oldfun) applied to the function that class c defines under n.
Old(c, n, oldfun) ==
    /\ ~running
    /\ nattach < MaxAttach
    /\ klass[c][n].kind # "none"
    /\ LET method == klass[c][n]
           cw == method_cw(cws, method)
           r == old_wrap(cws, lists, method, oldfun)
       IN /\ cws' = r.cws
          /\ lists' = r.lists
          /\ klass' = [klass EXCEPT ![c][n] = call_wrapper(cw, cw)]
    /\ applied' = Append(applied, Application("old", c, n))
    /\ UNCHANGED <<running, obj, stack, ncalls>>

\* An _invariant_wrap that puts the invariant conditions behind the
\* conditions a wrapper already holds.
_invariant_wrap_append(st, c, method_name, mfunc, conditions) ==
    IF HasCw(mfunc)
    THEN [st EXCEPT
            !.cws[mfunc.cw].preconds =
                IF method_name # "__init__" THEN @ \o conditions ELSE @,
            !.cws[mfunc.cw].postconds = @ \o conditions]
    ELSE LET id == Len(st.cws) + 1
             cw == IF method_name = "__init__"
                   THEN NewWrapper(mfunc, << >>, conditions, DefaultOlds)
                   ELSE NewWrapper(mfunc, conditions, conditions, DefaultOlds)
         IN [st EXCEPT !.cws = Append(@, cw),
                       !.klass[c][method_name] = call_wrapper(id, id)]

\* _invariant_wrap(klass, (method_name, method), conditions) on the state
\* st = [klass, cws]; mfunc is method.__func__.
_invariant_wrap(st, c, method_name, mfunc, conditions) ==
    IF HasCw(mfunc)
    THEN [st EXCEPT
            !.cws[mfunc.cw].preconds =
                IF method_name # "__init__" THEN conditions \o @ ELSE @,
            !.cws[mfunc.cw].postconds = conditions \o @]
    ELSE LET id == Len(st.cws) + 1
             cw == IF method_name = "__init__"
                   THEN NewWrapper(mfunc, << >>, conditions, DefaultOlds)
                   ELSE NewWrapper(mfunc, conditions, conditions, DefaultOlds)
         IN [st EXCEPT !.cws = Append(@, cw),
                       !.klass[c][method_name] = call_wrapper(id, id)]

\* inspect.getmembers(klass, predicate=inspect.ismethod): the methods of
\* class c as (name, function) pairs in the class dictionaries k, by name.
RECURSIVE getmembers(_, _, _)
getmembers(k, c, i) ==
    IF i > Len(NameOrder) THEN << >>
    ELSE (IF Getattr(k, c, NameOrder[i]).kind # "none"
          THEN << <<NameOrder[i], Getattr(k, c, NameOrder[i])>> >>
          ELSE << >>) \o getmembers(k, c, i + 1)

\* invariant.classwrapper: the loop over methods.
RECURSIVE classwrapper(_, _, _, _, _)
classwrapper(st, c, methods, i, conditions) ==
    IF i > Len(methods) THEN st
    ELSE classwrapper(_invariant_wrap(st, c, methods[i][1], methods[i][2], conditions),
                      c, methods, i + 1, conditions)

\* @invariant(*ps) applied to class c.
Invariant(c, ps) ==
    /\ ~running
    /\ nattach < MaxAttach
    /\ LET r == classwrapper([klass |-> klass, cws |-> cws], c,
                             getmembers(klass, c, 1), 1,
                             Conditions(ps, TRUE, nattach + 1))
       IN /\ klass' = r.klass
          /\ cws' = r.cws
    /\ applied' = Append(applied, Application("invariant", c, ""))
    /\ UNCHANGED <<lists, running, obj, stack, ncalls>>

\* The orders in which dbcmethods_dict.items() may yield the method names.
Orders ==
    {o \in [1..Len(NameOrder) -> Names] :
        \A i, j \in 1..Len(NameOrder) : i # j => o[i] # o[j]}

\* A copy.copy in place of copy.deepcopy: the copy refers to the capture
\* list of the wrapper it was copied from.
derived_cw_shallow(st, parent_method, child_method) ==
    [st.cws[parent_method] EXCEPT !.method = child_method,
                                  !.copyof = parent_method]

\* copy.deepcopy(parent_method) followed by cw.method = child_method, on the
\* state st = [klass, cws, lists, made]: the copy has lists of its own.
derived_cw(st, parent_method, child_method) ==
    [st.cws[parent_method] EXCEPT !.method = child_method,
                                  !.olds = Len(st.lists) + 1,
                                  !.copyof = parent_method]

\* A dbcinherit without the check that the child's method carries no wrapper.
dbc_method_unchecked(st, c, method_name, parent_method, child_method) ==
    LET id == Len(st.cws) + 1
    IN [klass |-> [st.klass EXCEPT ![c][method_name] = call_wrapper(id, id)],
        cws |-> Append(st.cws, derived_cw(st, parent_method, child_method)),
        lists |-> Append(st.lists, st.lists[st.cws[parent_method].olds]),
        made |-> st.made \cup {method_name}]

\* dbcinherit, the body of the loop over dbcmethods_dict.items() for one
\* parent method; made holds the names for which this call of dbcinherit
\* has defined a call_wrapper so far.
dbc_method(st, c, method_name, parent_method, child_method) ==
    IF ~HasCw(child_method)
    THEN LET id == Len(st.cws) + 1
         IN [klass |-> [st.klass EXCEPT ![c][method_name] = call_wrapper(id, id)],
             cws |-> Append(st.cws, derived_cw(st, parent_method, child_method)),
             lists |-> Append(st.lists, st.lists[st.cws[parent_method].olds]),
             made |-> st.made \cup {method_name}]
    ELSE st

\* dbcinherit, the loop over dbcmethods_dict.items() for base b, the names
\* coming in the order o; k0 holds the class dictionaries when dbcinherit
\* was called (child_class_methods is read from them).
RECURSIVE dbc_base(_, _, _, _, _, _)
dbc_base(st, k0, c, b, o, i) ==
    IF i > Len(o) THEN st
    ELSE LET m == Getattr(st.klass, b, o[i])
         IN dbc_base(IF HasCw(m)
                     THEN dbc_method(st, c, o[i], m.cw, Getattr(k0, c, o[i]))
                     ELSE st,
                     k0, c, b, o, i + 1)

\* dbcinherit, the loop over klass.__bases__.
RECURSIVE dbc_bases(_, _, _, _, _)
dbc_bases(st, k0, c, o, i) ==
    IF i > Len(Bases(c)) THEN st
    ELSE dbc_bases(dbc_base(st, k0, c, Bases(c)[i], o, 1), k0, c, o, i + 1)

\* The call_wrapper functions defined in one call of dbcinherit close over
\* its single local variable cw: when called they use the wrapper that
\* variable holds after the loops, the last one assigned.
dbc_closures(st, c) ==
    [n \in Names |->
        IF n \in st.made
        THEN call_wrapper(st.klass[c][n].cw, Len(st.cws))
        ELSE st.klass[c][n]]

\* @dbcinherit applied to class c.
DbcInherit(c, o) ==
    /\ ~running
    /\ nattach < MaxAttach
    /\ LET r == dbc_bases([klass |-> klass, cws |-> cws, lists |-> lists, made |-> {}],
                          klass, c, o, 1)
       IN /\ klass' = [r.klass EXCEPT ![c] = dbc_closures(r, c)]
          /\ cws' = r.cws
          /\ lists' = r.lists
    /\ applied' = Append(applied, Application("dbcinherit", c, ""))
    /\ UNCHANGED <<running, obj, stack, ncalls>>


---------------------------------------------------------------------------
\* Call time: the client classes' method bodies, predicates and captures.

Ok == "ok"
PreconditionFailedException == "PreconditionFailedException"
PostconditionFailedException == "PostconditionFailedException"
InvariantFailedException == "InvariantFailedException"

\* The method bodies of the two classes, as in the tests' List and CoolList:
\* A.__init__ sets the fields, A.m appends, A.n pops (and raises on an empty
\* list); the override B.m omits the size increment, B.n shrinks the capacity.
\* An attribute read before __init__ has set it raises AttributeError.
Body(f, self, arg) ==
    IF f.name = "__init__"
    THEN [self |-> [self EXCEPT !.init = TRUE, !.capacity = arg, !.size = 0], exc |-> Ok]
    ELSE IF ~self.init THEN [self |-> self, exc |-> "AttributeError"]
    ELSE IF f.cls = "A" /\ f.name = "m"
    THEN [self |-> [self EXCEPT !.size = @ + 1], exc |-> Ok]
    ELSE IF f.cls = "A" /\ f.name = "n"
    THEN IF self.size = 0
         THEN [self |-> self, exc |-> "IndexError"]
         ELSE [self |-> [self EXCEPT !.size = @ - 1], exc |-> Ok]
    ELSE IF f.cls = "B" /\ f.name = "m"
    THEN [self |-> self, exc |-> Ok]
    ELSE [self |-> [self EXCEPT !.capacity = @ - 1], exc |-> Ok]

\* len(inspect.getargspec(condition).args) of the predicates.
Arity(p) == IF p \in {"inc", "same"} THEN 2 ELSE 1

\* The predicates, as Python values or the exception they raise:
\*   lt  = lambda self: self.size < self.capacity
\*   cap = lambda self: self.capacity >= 0
\*   inc = lambda self, old: old['size'] + 1 == self.size
\*   same = lambda self, old: old['size'] == self.size
\*   sz  = lambda self: self.size
\* An int result is kept as "0", "1" or, for any other number, "int".
PyBool(b) == IF b THEN "True" ELSE "False"
PyInt(n) == IF n = 0 THEN "0" ELSE IF n = 1 THEN "1" ELSE "int"
Predicate(p, self, old) ==
    IF Arity(p) = 2 /\ "size" \notin DOMAIN old THEN "KeyError"
    ELSE IF ~self.init THEN "AttributeError"
    ELSE IF p = "lt" THEN PyBool(self.size < self.capacity)
    ELSE IF p = "cap" THEN PyBool(self.capacity >= 0)
    ELSE IF p = "sz" THEN PyInt(self.size)
    ELSE IF p = "same" THEN PyBool(old["size"] = self.size)
    ELSE PyBool(old["size"] + 1 = self.size)

IsException(v) == v \in {"KeyError", "AttributeError", "IndexError"}

\* A comparison that lets every value through: no condition ever fails.
NotEqualTrue_never(v) == FALSE

\* v != True on Python values (1 == True in Python).
NotEqualTrue(v) == v \notin {"True", "1"}

\* The capture functions:
\*   size = lambda self: {'size': self.size}
\*   room = lambda self: {'size': self.capacity - self.size, 'capacity': self.capacity}
Capture(oldfun, self) ==
    IF oldfun = "size" THEN [k \in {"size"} |-> self.size]
    ELSE [k \in {"size", "capacity"} |->
             IF k = "size" THEN self.capacity - self.size ELSE self.capacity]
CaptureRaises(oldfun, self) == ~self.init

\* _Condition.__call__(calleeself, old): old is passed on to a predicate of
\* two parameters only.
Condition_call(cond, calleeself, old) ==
    IF Arity(cond.pred) = 2
    THEN Predicate(cond.pred, calleeself, old)
    ELSE Predicate(cond.pred, calleeself, EmptyDict)

\* __call__, the loop saving the @old values: the dictionary oldvals after
\* the capture functions olds[i..] have run, or the exception one raised.
RECURSIVE save_olds(_, _, _, _)
save_olds(olds, i, calleeself, oldvals) ==
    IF i > Len(olds) THEN [oldvals |-> oldvals, exc |-> Ok]
    ELSE IF CaptureRaises(olds[i], calleeself)
    THEN [oldvals |-> oldvals, exc |-> "AttributeError"]
    ELSE save_olds(olds, i + 1, calleeself,
                   DictUpdate(oldvals, Capture(olds[i], calleeself)))

\* __call__, checking the preconditions: the value of cond(calleeself); the
\* parameter old of _Condition.__call__ takes its default, an empty dict.
pre_value(cond, calleeself, oldvals) == Condition_call(cond, calleeself, EmptyDict)

\* A postcondition check that reads the captured names from the receiver as
\* it is now instead of using the values saved before the call.
post_value_live(cond, calleeself, oldvals) ==
    Condition_call(cond, calleeself, [k \in DOMAIN oldvals |-> calleeself.size])

\* __call__, checking the postconditions: the value of cond(calleeself, oldvals).
post_value(cond, calleeself, oldvals) == Condition_call(cond, calleeself, oldvals)

\* A precondition loop pasted from the postcondition loop, raising its
\* exception.
pre_raise_as_post(cond) ==
    IF cond.inv THEN InvariantFailedException ELSE PostconditionFailedException

\* __call__: what a precondition whose value is not True raises.
pre_raise(cond) ==
    IF cond.inv THEN InvariantFailedException ELSE PreconditionFailedException

\* A postcondition loop that does not look at the invariant tag.
post_raise_untagged(cond) == PostconditionFailedException

\* __call__: what a postcondition whose value is not True raises.
post_raise(cond) ==
    IF cond.inv THEN InvariantFailedException ELSE PostconditionFailedException

\* An entry of the trace of one invocation: a condition evaluated (k is the
\* phase, i its place in the list) or the implementation run (k = "body").
Event(k, i, f) == [k |-> k, i |-> i, cls |-> f.cls, name |-> f.name]

\* The frame of _PyADBCMethodCallWrapper.__call__ on the wrapper cw, entered
\* by calling the call_wrapper f found under name on the receiver self.
Frame(f, name, self, arg) ==
    [fn |-> f, name |-> name, cw |-> f.callcw, pc |-> "old", i |-> 1,
     oldvals |-> EmptyDict, exc |-> Ok, at |-> "", log |-> << >>,
     self0 |-> self, arg |-> arg]

Top(t) == Head(stack[t])
SetTop(t, f) == [stack EXCEPT ![t] = <<f>> \o Tail(@)]
Idle(t) == stack[t] = << >>

\* A __call__ that catches what the implementation raises and reports it as
\* a broken postcondition.
Raise_reclassified(f, e, k) ==
    [f EXCEPT !.pc = "raise", !.at = k,
              !.exc = IF k = "body" THEN PostconditionFailedException ELSE e]

\* The frame f with the exception e raised in phase k.
Raise(f, e, k) == [f EXCEPT !.pc = "raise", !.exc = e, !.at = k]

\* t = klass(arg): a new object, then __init__ looked up on its class.
New(t, c, arg) ==
    /\ Idle(t)
    /\ obj[t] = NoObj
    /\ LET f == Getattr(klass, c, "__init__")
           self == [NoObj EXCEPT !.cls = c]
       IN IF IsCallWrapper(f)
          THEN /\ obj' = [obj EXCEPT ![t] = self]
               /\ stack' = [stack EXCEPT ![t] = <<Frame(f, "__init__", self, arg)>>]
          ELSE /\ obj' = [obj EXCEPT ![t] = Body(f, self, arg).self]
               /\ UNCHANGED stack
    /\ running' = TRUE
    /\ UNCHANGED <<klass, cws, lists, applied, ncalls>>

\* t.n(): the method n looked up on the receiver's class and called.
Call(t, n) ==
    /\ Idle(t)
    /\ obj[t] # NoObj
    /\ ncalls[t] < MaxCalls
    /\ LET f == Getattr(klass, obj[t].cls, n)
       IN IF IsCallWrapper(f)
          THEN /\ stack' = [stack EXCEPT ![t] = <<Frame(f, n, obj[t], 0)>>]
               /\ UNCHANGED obj
          ELSE /\ obj' = [obj EXCEPT ![t] = Body(f, obj[t], 0).self]
               /\ UNCHANGED stack
    /\ ncalls' = [ncalls EXCEPT ![t] = @ + 1]
    /\ UNCHANGED <<klass, cws, lists, applied, running>>

\* t.capacity = v, from outside the class (as test_invfail2 does).
SetCapacity(t, v) ==
    /\ Idle(t)
    /\ obj[t].init
    /\ obj[t].capacity >= 0
    /\ obj' = [obj EXCEPT ![t].capacity = v]
    /\ UNCHANGED <<klass, cws, lists, applied, running, stack, ncalls>>

\* A __call__ that runs the implementation first and checks the
\* preconditions afterwards.
Flow_body_first(pc, w) ==
    IF pc = "old" THEN "body"
    ELSE IF pc = "body"
    THEN (IF Len(w.preconds) > 0 THEN "pre"
          ELSE IF Len(w.postconds) > 0 THEN "post" ELSE "return")
    ELSE IF pc = "pre" THEN (IF Len(w.postconds) > 0 THEN "post" ELSE "return")
    ELSE "return"

\* __call__, its order of work on the wrapper w: the phase that follows
\* phase pc (a loop over an empty list takes no step).
Flow(pc, w) ==
    IF pc = "old" THEN (IF Len(w.preconds) = 0 THEN "body" ELSE "pre")
    ELSE IF pc = "pre" THEN "body"
    ELSE IF pc = "body" THEN (IF Len(w.postconds) = 0 THEN "return" ELSE "post")
    ELSE "return"

\* __call__: save the @old values for use in postconditions.
SaveOlds(t) ==
    /\ ~Idle(t)
    /\ Top(t).pc = "old"
    /\ LET f == Top(t)
           r == save_olds(lists[cws[f.cw].olds], 1, obj[t], EmptyDict)
       IN IF r.exc # Ok
          THEN /\ stack' = SetTop(t, Raise(f, r.exc, "old"))
               /\ UNCHANGED cws
          ELSE /\ stack' = SetTop(t, [f EXCEPT !.oldvals = r.oldvals,
                                               !.pc = Flow("old", cws[f.cw])])
               /\ cws' = [cws EXCEPT ![f.cw].oldvals = r.oldvals]
    /\ UNCHANGED <<klass, lists, applied, running, obj, ncalls>>

\* __call__: one turn of the loop checking the preconditions.
CheckPre(t) ==
    /\ ~Idle(t)
    /\ Top(t).pc = "pre"
    /\ LET f == Top(t)
           w == cws[f.cw]
           cond == w.preconds[f.i]
           v == pre_value(cond, obj[t], f.oldvals)
           g == [f EXCEPT !.log = Append(@, Event("pre", f.i, f.fn))]
       IN stack' = SetTop(t,
            IF IsException(v) THEN Raise(g, v, "pre")
            ELSE IF NotEqualTrue(v) THEN Raise(g, pre_raise(cond), "pre")
            ELSE IF f.i = Len(w.preconds) THEN [g EXCEPT !.pc = Flow("pre", w), !.i = 1]
            ELSE [g EXCEPT !.i = f.i + 1])
    /\ UNCHANGED <<klass, cws, lists, applied, running, obj, ncalls>>

\* __call__: result = method(calleeself, *args, **kwargs).
CallMethod(t) ==
    /\ ~Idle(t)
    /\ Top(t).pc = "body"
    /\ LET f == Top(t)
           w == cws[f.cw]
           g == [f EXCEPT !.log = Append(@, Event("body", 0, w.method))]
       IN IF IsCallWrapper(w.method)
          THEN /\ stack' = [stack EXCEPT ![t] =
                              <<Frame(w.method, f.name, obj[t], f.arg),
                                [g EXCEPT !.pc = "wait"]>> \o Tail(@)]
               /\ UNCHANGED obj
          ELSE LET r == Body(w.method, obj[t], f.arg)
               IN /\ obj' = [obj EXCEPT ![t] = r.self]
                  /\ stack' = SetTop(t,
                        IF r.exc # Ok THEN Raise(g, r.exc, "body")
                        ELSE [g EXCEPT !.pc = Flow("body", w), !.i = 1])
    /\ UNCHANGED <<klass, cws, lists, applied, running, ncalls>>

\* A __call__ that hands the postconditions the attribute self.oldvals of
\* the wrapper instead of its local variable.
oldvals_attribute(f) == cws[f.cw].oldvals

\* __call__: the local variable oldvals of the invocation with frame f.
oldvals_local(f) == f.oldvals

\* __call__: one turn of the loop checking the postconditions.
CheckPost(t) ==
    /\ ~Idle(t)
    /\ Top(t).pc = "post"
    /\ LET f == Top(t)
           w == cws[f.cw]
           cond == w.postconds[f.i]
           v == post_value(cond, obj[t], oldvals_local(f))
           g == [f EXCEPT !.log = Append(@, Event("post", f.i, f.fn))]
       IN stack' = SetTop(t,
            IF IsException(v) THEN Raise(g, v, "post")
            ELSE IF NotEqualTrue(v) THEN Raise(g, post_raise(cond), "post")
            ELSE IF f.i = Len(w.postconds) THEN [g EXCEPT !.pc = Flow("post", w)]
            ELSE [g EXCEPT !.i = f.i + 1])
    /\ UNCHANGED <<klass, cws, lists, applied, running, obj, ncalls>>

\* __call__ returns result or lets the exception out.  The caller is the
\* client, or the __call__ of an enclosing wrapper waiting at its method
\* call; an object whose constructor raised is never bound.
Return(t) ==
    /\ ~Idle(t)
    /\ Top(t).pc \in {"return", "raise"}
    /\ LET f == Top(t)
           rest == Tail(stack[t])
       IN IF rest = << >>
          THEN /\ stack' = [stack EXCEPT ![t] = << >>]
               /\ obj' = [obj EXCEPT ![t] =
                            IF f.name = "__init__" /\ f.exc # Ok THEN NoObj ELSE @]
          ELSE /\ stack' = [stack EXCEPT ![t] =
                    <<IF f.exc # Ok THEN Raise(rest[1], f.exc, "body")
                      ELSE [rest[1] EXCEPT !.pc = Flow("body", cws[rest[1].cw]), !.i = 1]>>
                    \o Tail(rest)]
               /\ UNCHANGED obj
    /\ UNCHANGED <<klass, cws, lists, applied, running, ncalls>>

Next ==
    \/ \E c \in Classes, n \in AttachNames, ps \in RequiresArgs : Requires(c, n, ps)
    \/ \E c \in Classes, n \in AttachNames, ps \in EnsuresArgs : Ensures(c, n, ps)
    \/ \E c \in Classes, n \in AttachNames, f \in OldArgs : Old(c, n, f)
    \/ \E c \in Classes, ps \in InvariantArgs : Invariant(c, ps)
    \/ \E c \in Subclasses, o \in Orders : DbcInherit(c, o)
    \/ \E t \in MainThread, c \in Classes, arg \in CapArgs : New(t, c, arg)
    \/ \E t \in MainThread, n \in Names \ {"__init__"} : Call(t, n)
    \/ \E t \in MainThread : SetCapacity(t, -1)
    \/ \E t \in MainThread : SaveOlds(t)
    \/ \E t \in MainThread : CheckPre(t)
    \/ \E t \in MainThread : CallMethod(t)
    \/ \E t \in MainThread : CheckPost(t)
    \/ \E t \in MainThread : Return(t)

Spec == Init /\ [][Next]_vars

\* The same program with the further predicates and capture functions
\* attached to the method m of class A, called from one thread.
ValuesNext ==
    \/ \E ps \in RequiresValueArgs : Requires("A", "m", ps)
    \/ \E ps \in EnsuresValueArgs : Ensures("A", "m", ps)
    \/ \E f \in OldValueArgs : Old("A", "m", f)
    \/ \E t \in MainThread, arg \in CapArgs : New(t, "A", arg)
    \/ \E t \in MainThread, n \in Names \ {"__init__"} : Call(t, n)
    \/ \E t \in MainThread : SaveOlds(t)
    \/ \E t \in MainThread : CheckPre(t)
    \/ \E t \in MainThread : CallMethod(t)
    \/ \E t \in MainThread : CheckPost(t)
    \/ \E t \in MainThread : Return(t)

ValuesSpec == Init /\ [][ValuesNext]_vars

\* The same program with two threads, each with a receiver of its own,
\* calling the method m of class A; the steps of their invocations
\* interleave freely.
ThreadsNext ==
    \/ \E ps \in RequiresArgs : Requires("A", "m", ps)
    \/ \E ps \in EnsuresArgs : Ensures("A", "m", ps)
    \/ \E f \in OldArgs : Old("A", "m", f)
    \/ \E t \in Threads, arg \in CapArgs : New(t, "A", arg)
    \/ \E t \in Threads : Call(t, "m")
    \/ \E t \in Threads : SaveOlds(t)
    \/ \E t \in Threads : CheckPre(t)
    \/ \E t \in Threads : CallMethod(t)
    \/ \E t \in Threads : CheckPost(t)
    \/ \E t \in Threads : Return(t)

ThreadsSpec == Init /\ [][ThreadsNext]_vars

---------------------------------------------------------------------------
\* The claims.

\* The frames of the invocations in progress, and the kinds of trace entry.
FramesOf(t) == {stack[t][d] : d \in DOMAIN stack[t]}
AllFrames == UNION {FramesOf(t) : t \in Threads}
Count(log, k) == Cardinality({i \in DOMAIN log : log[i].k = k})
Finished(f) == f.pc \in {"return", "raise"}

\* C1: in every invocation of a contract-wrapped method each precondition
\* evaluation comes before the implementation runs and each postcondition
\* evaluation after it has returned: when the implementation runs every
\* precondition has been evaluated, no condition is evaluated while it
\* runs, and no postcondition is evaluated unless it has run.
C1_PreBodyPostOrder ==
    \A f \in AllFrames :
        /\ \A i, j \in DOMAIN f.log :
              /\ (f.log[i].k = "pre" /\ f.log[j].k = "body") => i < j
              /\ (f.log[i].k = "post" /\ f.log[j].k = "body") => j < i
        /\ Count(f.log, "post") > 0 => Count(f.log, "body") = 1
        /\ Count(f.log, "body") > 0 => Count(f.log, "pre") = Len(cws[f.cw].preconds)
        /\ f.pc = "wait" => f.log[Len(f.log)].k = "body"

\* C1 witness: an invocation that evaluated a precondition, ran the
\* implementation and evaluated a postcondition, and returns.
C1_Witness ==
    \E f \in AllFrames :
        /\ f.pc = "return"
        /\ Count(f.log, "pre") > 0
        /\ Count(f.log, "body") = 1
        /\ Count(f.log, "post") > 0

\* The value a condition of one parameter has on the receiver state self.
ValueAt(cond, self) == Condition_call(cond, self, EmptyDict)

\* The ends of a call whose precondition failed: PreconditionFailedException,
\* the implementation not run, no postcondition evaluated, the receiver as
\* it was when the call was made.
PreconditionFailure(t, f) ==
    /\ f.exc = PreconditionFailedException
    /\ f.at = "pre"
    /\ Count(f.log, "body") = 0
    /\ Count(f.log, "post") = 0
    /\ obj[t] = f.self0

ContractFailures ==
    {PreconditionFailedException, PostconditionFailedException, InvariantFailedException}

\* The condition whose evaluation ended the frame f in phase f.at.
FailedCond(f) ==
    IF f.at = "pre" THEN cws[f.cw].preconds[f.i] ELSE cws[f.cw].postconds[f.i]

\* The value of the condition evaluated last in frame f of thread t (the
\* receiver has not changed since).
LastValue(t, f) ==
    LET e == f.log[Len(f.log)]
    IN IF e.k = "pre" THEN pre_value(cws[f.cw].preconds[e.i], obj[t], f.oldvals)
       ELSE post_value(cws[f.cw].postconds[e.i], obj[t], f.oldvals)

\* C3: the failure a failing condition raises is fixed by its tag and the
\* phase: InvariantFailedException for an invariant-tagged condition in
\* either phase, PreconditionFailedException for another condition in the
\* precondition phase, PostconditionFailedException for another condition in
\* the postcondition phase; these failures arise in no other way, and a
\* condition whose value is not True ends the call.
C3_FailureKindByTagAndPhase ==
    \A t \in Threads : \A f \in FramesOf(t) :
        /\ f.exc \in ContractFailures =>
              /\ f.pc = "raise"
              /\ f.at \in {"pre", "post"}
              /\ f.exc = IF FailedCond(f).inv THEN InvariantFailedException
                         ELSE IF f.at = "pre" THEN PreconditionFailedException
                         ELSE PostconditionFailedException
        /\ (/\ Len(f.log) > 0
            /\ f.log[Len(f.log)].k \in {"pre", "post"}
            /\ LastValue(t, f) \in {"False"})
           => f.exc \in ContractFailures

\* C3 witness: an invariant-tagged condition has failed after the body of a
\* method other than the constructor and InvariantFailedException is raised.
C3_Witness ==
    \E f \in AllFrames :
        /\ f.pc = "raise"
        /\ f.at = "post"
        /\ f.name # "__init__"
        /\ FailedCond(f).inv
        /\ f.exc = InvariantFailedException

\* The frame has saved the @old values.
Captured(f) ==
    \/ f.pc \in {"pre", "body", "wait", "post", "return"}
    \/ f.pc = "raise" /\ f.at # "old"

\* C4: the snapshot given to the postconditions holds what the capture
\* functions read before the implementation ran: every captured name has the
\* receiver's value at call time, so a postcondition old['size'] + 1 ==
\* self.size passes exactly when the implementation has added one to the
\* value the receiver had before the call.
C4_SnapshotIsPreCallState ==
    \A t \in Threads : \A f \in FramesOf(t) :
        /\ Captured(f) =>
              /\ DOMAIN f.oldvals =
                    {lists[cws[f.cw].olds][i] : i \in DOMAIN lists[cws[f.cw].olds]}
              /\ \A k \in DOMAIN f.oldvals : f.oldvals[k] = f.self0.size
        /\ (/\ f.pc = "return"
            /\ "size" \in DOMAIN f.oldvals
            /\ \E i \in DOMAIN cws[f.cw].postconds : cws[f.cw].postconds[i].pred = "inc")
           => obj[t].size = f.self0.size + 1
        /\ (/\ f.pc = "raise"
            /\ f.at = "post"
            /\ FailedCond(f).pred = "inc"
            /\ f.exc = PostconditionFailedException)
           => obj[t].size # f.self0.size + 1

\* C4 witness: the implementation has changed size, and the postcondition
\* old['size'] + 1 == self.size has passed on the value saved before the call.
C4_Witness ==
    \E t \in Threads : \E f \in FramesOf(t) :
        /\ f.pc = "return"
        /\ "size" \in DOMAIN f.oldvals
        /\ \E i \in DOMAIN cws[f.cw].postconds : cws[f.cw].postconds[i].pred = "inc"
        /\ obj[t].size # f.self0.size
        /\ f.oldvals["size"] = f.self0.size

\* @invariant has been applied to class c.
InvariantOn(c) ==
    \E k \in DOMAIN applied : applied[k].op = "invariant" /\ applied[k].cls = c

\* The invariant given to @invariant (capacity >= 0) holds of the receiver.
InvariantHolds(self) == self.capacity >= 0

\* C5 as claimed: once @invariant has been applied to a class, on its
\* instances the invariant is checked after the constructor's body and never
\* before it, and before and after the body of every other method: a
\* construction that leaves the invariant broken ends with
\* InvariantFailedException raised after the body, a call on an object whose
\* invariant is broken ends with InvariantFailedException before the body
\* runs, and a call whose body breaks it ends with InvariantFailedException.
C5_AsClaimed ==
    \A t \in Threads : \A f \in FramesOf(t) :
        (Finished(f) /\ InvariantOn(f.self0.cls)) =>
            IF f.name = "__init__"
            THEN /\ Count(f.log, "pre") = 0
                 /\ f.arg < 0 =>
                       /\ f.exc = InvariantFailedException
                       /\ f.at = "post"
                       /\ Count(f.log, "body") = 1
            ELSE /\ ~InvariantHolds(f.self0) =>
                       /\ f.exc = InvariantFailedException
                       /\ f.at = "pre"
                       /\ Count(f.log, "body") = 0
                 /\ (/\ InvariantHolds(f.self0)
                     /\ ~InvariantHolds(obj[t])
                     /\ f.exc \notin {"IndexError", "AttributeError", "KeyError"})
                    => (f.exc = InvariantFailedException /\ f.at = "post")

\* Class B has been given no contract of its own for method n: no decorator
\* has been applied to B.n or, as @invariant, to B.
NoOwnContract(n) ==
    \A k \in DOMAIN applied :
        applied[k].cls = "B" =>
            (applied[k].op = "dbcinherit" \/ applied[k].name \notin {n, ""})

\* dbcinherit(B) was applied once, as the last decorator, so the wrappers of
\* A are those it copied from.
PropagatedLast ==
    /\ applied # << >>
    /\ \A k \in DOMAIN applied : applied[k].op = "dbcinherit" <=> k = Len(applied)

\* C6 as claimed: after dbcinherit on the subclass, a call of an override
\* that has no contract of its own evaluates the preconditions and the
\* postconditions the ancestor's wrapper for that method holds, around the
\* override's own body.
C6_AsClaimed ==
    \A t \in Threads : \A f \in FramesOf(t) :
        (/\ f.self0.cls = "B"
         /\ f.name \in Defines("B")
         /\ NoOwnContract(f.name)
         /\ PropagatedLast
         /\ HasCw(klass["A"][f.name]))
        => /\ cws[f.cw].preconds = cws[klass["A"][f.name].cw].preconds
           /\ cws[f.cw].postconds = cws[klass["A"][f.name].cw].postconds
           /\ \A i \in DOMAIN f.log :
                 f.log[i].k = "body" => (f.log[i].cls = "B" /\ f.log[i].name = f.name)

\* The step is an application of dbcinherit, to the class DbcClass.
DbcStep ==
    /\ Len(applied') = Len(applied) + 1
    /\ applied'[Len(applied')].op = "dbcinherit"
DbcClass == applied'[Len(applied')].cls

\* dbcinherit changes the class dictionary of its class only under the names
\* the class overrides with a bare function while a base holds a wrapper for
\* them, and changes no wrapper and no capture list that existed.
DbcFrame ==
    DbcStep =>
        /\ \A n \in Names :
              klass'[DbcClass][n] # klass[DbcClass][n] =>
                  /\ klass[DbcClass][n].kind = "bare"
                  /\ \E i \in DOMAIN Bases(DbcClass) :
                        HasCw(Getattr(klass, Bases(DbcClass)[i], n))
                  /\ HasCw(klass'[DbcClass][n])
                  /\ klass'[DbcClass][n].cw > Len(cws)
        /\ \A c \in Classes \ {DbcClass} : klass'[c] = klass[c]
        /\ \A k \in DOMAIN cws : cws'[k] = cws[k]
        /\ \A k \in DOMAIN lists : lists'[k] = lists[k]

\* The override B.n got its own contract before dbcinherit was ever applied.
OwnContractFirst(n) ==
    \E k \in DOMAIN applied :
        /\ applied[k].cls = "B"
        /\ applied[k].op # "dbcinherit"
        /\ applied[k].name \in {n, ""}
        /\ \A j \in 1..k : applied[j].op # "dbcinherit"

\* The conditions of wrapper w all come from decorators applied to class c.
ConditionsFrom(w, c) ==
    /\ \A i \in DOMAIN w.preconds : applied[w.preconds[i].att].cls = c
    /\ \A i \in DOMAIN w.postconds : applied[w.postconds[i].att].cls = c

\* A call of an override with a contract of its own evaluates conditions of
\* that contract only, around the override's body; a call of a method the
\* subclass does not override runs the ancestor's wrapper and body.
DbcCalls ==
    \A f \in AllFrames :
        f.self0.cls = "B" =>
            /\ (f.name \in Defines("B") /\ OwnContractFirst(f.name)) =>
                  /\ ConditionsFrom(cws[f.cw], "B")
                  /\ cws[f.cw].method = Bare("B", f.name)
            /\ klass["B"][f.name].kind = "none" =>
                  /\ f.fn = klass["A"][f.name]
                  /\ f.cw = klass["A"][f.name].cw
                  /\ cws[f.cw].method = Bare("A", f.name)

\* C7: dbcinherit installs a derived wrapper on the subclass for a method
\* name only where the subclass overrides it with a bare function; an
\* override carrying a wrapper of its own and a method that is not overridden
\* are left as they are, so the former is checked against its own conditions
\* only and the latter keeps the ancestor's wrapper and implementation.
C7_PropagateOnlyBareOverrides == [][DbcFrame]_vars /\ []DbcCalls

\* C7 witness: dbcinherit was applied to B whose override m had a contract of
\* its own while A.m had one too, and a call of m on a B has returned.
C7_Witness ==
    /\ \E k \in DOMAIN applied : applied[k].op = "dbcinherit"
    /\ OwnContractFirst("m")
    /\ HasCw(klass["A"]["m"])
    /\ \E f \in AllFrames :
          /\ f.self0.cls = "B"
          /\ f.name = "m"
          /\ f.pc = "return"
          /\ Len(f.log) > 1

\* No entry of the list s occurs in it twice.
NoDuplicates(s) == \A i, j \in DOMAIN s : i # j => s[i] # s[j]

\* The class dictionary entries that hold the wrapper k as their cw.
Holders(k) ==
    {<<c, n>> \in Classes \X Names : HasCw(klass[c][n]) /\ klass[c][n].cw = k}

\* C8: whatever decorators have been applied, a decorated method has one
\* wrapper: every wrapper is the cw of exactly one method, its implementation
\* is the bare method of that name and never a call_wrapper, and no condition
\* stands twice in one of its lists; so an invocation is one frame deep, runs
\* the implementation at most once (once if it returns) and evaluates no
\* condition twice in a phase.
C8_OneWrapperPerMethod ==
    /\ \A k \in DOMAIN cws :
          /\ cws[k].method.kind = "bare"
          /\ Cardinality(Holders(k)) = 1
          /\ \A h \in Holders(k) : cws[k].method.name = h[2]
          /\ NoDuplicates(cws[k].preconds)
          /\ NoDuplicates(cws[k].postconds)
    /\ \A c \in Classes, n \in Names :
          IsCallWrapper(klass[c][n]) => klass[c][n].cw \in DOMAIN cws
    /\ \A t \in Threads :
          /\ Len(stack[t]) <= 1
          /\ \A f \in FramesOf(t) :
                /\ NoDuplicates(f.log)
                /\ Count(f.log, "body") <= 1
                /\ f.pc = "return" => Count(f.log, "body") = 1

\* C8 witness: @old, @requires and @invariant have all been applied to A.m,
\* and a call of m has returned after each condition was evaluated once.
C8_Witness ==
    /\ \E k \in DOMAIN applied : applied[k] = Application("requires", "A", "m")
    /\ \E k \in DOMAIN applied : applied[k] = Application("old", "A", "m")
    /\ \E k \in DOMAIN applied : applied[k] = Application("invariant", "A", "")
    /\ \E f \in AllFrames :
          /\ f.fn = klass["A"]["m"]
          /\ f.pc = "return"
          /\ Len(cws[f.cw].preconds) = 2
          /\ Len(cws[f.cw].postconds) = 1
          /\ Len(f.log) = 4

\* The conditions of the list s that @requires or @ensures attached stand in
\* the order in which they were attached (Earlier) or in the reverse order.
EarlierFirst(s) ==
    \A i, j \in DOMAIN s : (i < j /\ ~s[i].inv /\ ~s[j].inv) => s[i].att < s[j].att
EarlierLast(s) ==
    \A i, j \in DOMAIN s : (i < j /\ ~s[i].inv /\ ~s[j].inv) => s[i].att > s[j].att

\* Within a phase the conditions are evaluated in the order of their list.
EvaluatedInListOrder ==
    \A f \in AllFrames : \A a, b \in DOMAIN f.log :
        (a < b /\ f.log[a].k = f.log[b].k) => f.log[a].i < f.log[b].i

\* C9 as claimed: of the conditions stacked on one method, those attached
\* first are evaluated closest to the implementation call: last among the
\* preconditions and first among the postconditions.
C9_AsClaimed ==
    /\ EvaluatedInListOrder
    /\ \A k \in DOMAIN cws :
          /\ EarlierLast(cws[k].preconds)
          /\ EarlierFirst(cws[k].postconds)

\* C9 amended: of the conditions @requires and @ensures stacked on one
\* method, those attached first are evaluated first in both phases: first
\* among the postconditions, closest to the implementation call, and first
\* among the preconditions too, furthest from it.
C9_AttachedFirstEvaluatedFirst ==
    /\ EvaluatedInListOrder
    /\ \A k \in DOMAIN cws :
          /\ EarlierFirst(cws[k].preconds)
          /\ EarlierFirst(cws[k].postconds)

\* C9 witness: two @requires were stacked on a method, and a call has
\* evaluated the condition of the first before the condition of the second.
C9_Witness ==
    \E f \in AllFrames :
        /\ Len(f.log) >= 2
        /\ f.log[1].k = "pre" /\ f.log[2].k = "pre"
        /\ ~cws[f.cw].preconds[f.log[1].i].inv
        /\ ~cws[f.cw].preconds[f.log[2].i].inv
        /\ cws[f.cw].preconds[f.log[1].i].att < cws[f.cw].preconds[f.log[2].i].att

\* The wrappers held by the methods in the dictionary of class a.
WrappersOf(k, a) == {k[a][n].cw : n \in {m \in Names : HasCw(k[a][m])}}

\* The step applies @invariant to class c.
InvariantStep(c) == applied' = Append(applied, Application("invariant", c, ""))

\* The invariant conditions in the list s come from @invariant on class a.
InvariantsFrom(s, a) ==
    \A i \in DOMAIN s : s[i].inv => applied[s[i].att].cls = a

\* C10 as claimed: @invariant applied to a class C leaves the wrappers of the
\* methods C only inherits as they were, their precondition and postcondition
\* lists unchanged, so a call on an instance of the ancestor evaluates no
\* invariant condition of C.
C10_AsClaimed ==
    /\ [][\A c \in Classes : InvariantStep(c) =>
             \A a \in Classes \ {c} : \A k \in WrappersOf(klass, a) :
                 /\ cws'[k].preconds = cws[k].preconds
                 /\ cws'[k].postconds = cws[k].postconds]_vars
    /\ [](\A f \in AllFrames : f.self0.cls = "A" =>
             /\ InvariantsFrom(cws[f.cw].preconds, "A")
             /\ InvariantsFrom(cws[f.cw].postconds, "A"))

\* C11: when the implementation itself raises, the invocation ends with
\* exactly that exception, raised at the method call: it is none of the three
\* contract failures, and no postcondition of the invocation is evaluated.
C11_ImplementationFailurePassesThrough ==
    \A t \in Threads : \A f \in FramesOf(t) :
        /\ f.at = "body" =>
              /\ f.pc = "raise"
              /\ f.exc = Body(cws[f.cw].method, obj[t], f.arg).exc
              /\ f.exc \notin ContractFailures
              /\ Count(f.log, "post") = 0
        /\ (/\ Count(f.log, "body") = 1
            /\ f.pc # "wait"
            /\ Body(cws[f.cw].method, f.self0, f.arg).exc # Ok)
           => /\ f.pc = "raise"
              /\ f.at = "body"
              /\ f.exc = Body(cws[f.cw].method, f.self0, f.arg).exc
              /\ Count(f.log, "post") = 0

\* C11 witness: the pop on an empty list has raised IndexError inside a
\* wrapper that holds postconditions, after its preconditions passed.
C11_Witness ==
    \E f \in AllFrames :
        /\ f.pc = "raise"
        /\ f.at = "body"
        /\ f.exc = "IndexError"
        /\ Count(f.log, "pre") > 0
        /\ Len(cws[f.cw].postconds) > 0

\* The entries of the trace of frame f for phase k, in order, number the
\* conditions 1, 2, ... of the list: none is skipped or taken out of turn.
InListOrder(f, k) ==
    \A a \in DOMAIN f.log :
        f.log[a].k = k =>
            f.log[a].i = Cardinality({b \in 1..a : f.log[b].k = k})

\* C12: within each phase the conditions are evaluated in the order of the
\* wrapper's list, and evaluation stops at the first that fails: an
\* evaluation whose value is not True is the last entry of the invocation's
\* trace and the invocation has raised in that phase, so with two
\* preconditions of which the first is false the second is never called.
C12_ListOrderFailFast ==
    \A t \in Threads : \A f \in FramesOf(t) :
        /\ InListOrder(f, "pre")
        /\ InListOrder(f, "post")
        /\ \A a \in DOMAIN f.log :
              /\ (/\ f.log[a].k = "pre"
                  /\ pre_value(cws[f.cw].preconds[f.log[a].i], f.self0, f.oldvals) # "True")
                 => (a = Len(f.log) /\ f.pc = "raise" /\ f.at = "pre")
              /\ (/\ f.log[a].k = "post"
                  /\ post_value(cws[f.cw].postconds[f.log[a].i], obj[t], f.oldvals) # "True")
                 => (a = Len(f.log) /\ f.pc = "raise" /\ f.at = "post")

\* C12 witness: of two preconditions the first was false; the invocation has
\* raised with one entry in its trace, the second never called.
C12_Witness ==
    \E f \in AllFrames :
        /\ Len(cws[f.cw].preconds) >= 2
        /\ f.pc = "raise"
        /\ f.at = "pre"
        /\ f.log = <<Event("pre", 1, f.fn)>>
        /\ pre_value(cws[f.cw].preconds[1], f.self0, f.oldvals) = "False"

\* What the evaluation of the condition cond ends in when it is given the
\* receiver self and the mapping old: Ok, or the exception raised.
PreOutcome(cond, self, old) ==
    LET v == Condition_call(cond, self, old)
    IN IF IsException(v) THEN v
       ELSE IF NotEqualTrue(v) THEN pre_raise(cond) ELSE Ok

\* C13 as claimed: every precondition is evaluated against the receiver and
\* the snapshot the invocation has just built, so the evaluation of a
\* precondition of two parameters ends as its predicate does on the mapping
\* the capture functions produced.
C13_AsClaimed ==
    \A f \in AllFrames : \A a \in DOMAIN f.log :
        f.log[a].k = "pre" =>
            (IF a = Len(f.log) /\ f.pc = "raise" /\ f.at = "pre" THEN f.exc ELSE Ok)
              = PreOutcome(cws[f.cw].preconds[f.log[a].i], f.self0, f.oldvals)

\* In the list s every invariant condition stands before every condition
\* that @requires or @ensures attached to the method.
InvariantsFirst(s) ==
    \A i, j \in DOMAIN s : (s[i].inv /\ ~s[j].inv) => i < j

\* C14: in the precondition list and the postcondition list of every wrapper
\* the invariant conditions stand before the method's own conditions, those
\* attached before @invariant ran and those attached after it alike; hence a
\* call on an object that breaks both an invariant and a precondition of the
\* method raises InvariantFailedException before the body, and not
\* PreconditionFailedException.
C14_InvariantsStandFirst ==
    /\ \A k \in DOMAIN cws :
          /\ InvariantsFirst(cws[k].preconds)
          /\ InvariantsFirst(cws[k].postconds)
    /\ \A f \in AllFrames :
          (/\ Finished(f)
           /\ \E i, j \in DOMAIN cws[f.cw].preconds :
                 /\ cws[f.cw].preconds[i].inv
                 /\ ValueAt(cws[f.cw].preconds[i], f.self0) = "False"
                 /\ ~cws[f.cw].preconds[j].inv
                 /\ ValueAt(cws[f.cw].preconds[j], f.self0) = "False")
          => /\ f.exc = InvariantFailedException
             /\ f.at = "pre"
             /\ Count(f.log, "body") = 0

\* C14 witness: @invariant ran after @requires on the method, the capacity
\* was then set below zero, and the call has raised InvariantFailedException
\* at the first precondition, the invariant, with the method's own
\* precondition false as well.
C14_Witness ==
    \E f \in AllFrames :
        /\ f.pc = "raise"
        /\ f.exc = InvariantFailedException
        /\ f.log = <<Event("pre", 1, f.fn)>>
        /\ \E j \in DOMAIN cws[f.cw].preconds :
              /\ ~cws[f.cw].preconds[j].inv
              /\ cws[f.cw].preconds[j].att < cws[f.cw].preconds[1].att
              /\ ValueAt(cws[f.cw].preconds[j], f.self0) = "False"

\* dbcinherit has been applied to class c.
Propagated(c) ==
    \E k \in DOMAIN applied : applied[k].op = "dbcinherit" /\ applied[k].cls = c

\* C15 as claimed: after dbcinherit on the subclass, a call of a method the
\* subclass overrides without a contract of its own runs the derived wrapper
\* built for that method: the wrapper that is the cw of the method called,
\* whose implementation is the subclass's body of that name, and no body of
\* another name.
C15_AsClaimed ==
    \A f \in AllFrames :
        (/\ f.self0.cls = "B"
         /\ Propagated("B")
         /\ f.name \in Defines("B")
         /\ NoOwnContract(f.name))
        => /\ f.cw = klass["B"][f.name].cw
           /\ cws[f.cw].method = Bare("B", f.name)
           /\ \A i \in DOMAIN f.log :
                 f.log[i].k = "body" => (f.log[i].cls = "B" /\ f.log[i].name = f.name)

\* The step applies @old to the method n of class c.
OldStep(c, n) == applied' = Append(applied, Application("old", c, n))

\* @old has been applied to a method named n.
OldOn(n) == \E k \in DOMAIN applied : applied[k].op = "old" /\ applied[k].name = n

\* C16 as claimed: @old applied to a method changes the capture list of that
\* method's wrapper only, the capture list of every other wrapper staying as
\* it was; a wrapper's capture functions are therefore those @old attached
\* to its method, and an invocation of a method to which @old was never
\* applied runs no capture function and has an empty snapshot.
C16_AsClaimed ==
    /\ [][\A c \in Classes, n \in Names : OldStep(c, n) =>
             \A k \in DOMAIN cws :
                 k # klass'[c][n].cw => lists'[cws'[k].olds] = lists[cws[k].olds]]_vars
    /\ [](\A f \in AllFrames :
             ~OldOn(cws[f.cw].method.name) =>
                 /\ lists[cws[f.cw].olds] = << >>
                 /\ f.oldvals = EmptyDict)

\* The implementation pointer and the three lists of wrapper k in the
\* wrapper objects ws and list objects ls.
Contract(ws, ls, k) ==
    <<ws[k].method, ws[k].preconds, ws[k].postconds, ls[ws[k].olds]>>

\* A step that changes the contract of a wrapper leaves the contract of the
\* wrapper copied from it, and of every wrapper copied from it, as it was.
CopiesApart ==
    \A k \in DOMAIN cws :
        cws[k].copyof # 0 =>
            /\ cws'[k].copyof = cws[k].copyof
            /\ Contract(cws', lists', cws[k].copyof) # Contract(cws, lists, cws[k].copyof)
                  => Contract(cws', lists', k) = Contract(cws, lists, k)

\* C17: dbcinherit leaves every wrapper and capture list that existed as it
\* was, the ancestor's among them, and the derived wrapper stands apart from
\* the wrapper it was copied from: no later decorator application changes
\* the lists of both, so extending the ancestor's contract leaves the
\* derived lists unchanged and extending the derived contract leaves the
\* ancestor's unchanged.
C17_DerivedWrapperIndependent ==
    [][/\ DbcStep => \A k \in DOMAIN cws :
                        Contract(cws', lists', k) = Contract(cws, lists, k)
       /\ CopiesApart]_vars

\* C17 witness: after dbcinherit copied the wrapper of A.m for B.m, a later
\* @old or @requires has made the two contracts differ.
C17_Witness ==
    \E k \in DOMAIN cws :
        /\ cws[k].copyof # 0
        /\ cws[k].method = Bare("B", "m")
        /\ cws[cws[k].copyof].method = Bare("A", "m")
        /\ \/ lists[cws[k].olds] # lists[cws[cws[k].copyof].olds]
           \/ cws[k].preconds # cws[cws[k].copyof].preconds

\* The snapshot the capture functions of wrapper k give on the receiver self.
Snapshot(k, self) == save_olds(lists[cws[k].olds], 1, self, EmptyDict).oldvals

\* What the evaluation of the postcondition cond ends in on the receiver
\* self with the mapping old: Ok, or the exception raised.
PostOutcome(cond, self, old) ==
    LET v == post_value(cond, self, old)
    IN IF IsException(v) THEN v
       ELSE IF NotEqualTrue(v) THEN post_raise(cond) ELSE Ok

\* C18: with invocations of one wrapped method on distinct receivers
\* interleaved, each invocation holds the snapshot it captured from its own
\* receiver when it began, whatever the other has captured since, and each
\* of its postconditions ends as its predicate does on that snapshot.
C18_OwnSnapshotWhenInterleaved ==
    \A t \in Threads : \A f \in FramesOf(t) :
        Captured(f) =>
            /\ f.oldvals = Snapshot(f.cw, f.self0)
            /\ \A a \in DOMAIN f.log :
                  f.log[a].k = "post" =>
                      (IF a = Len(f.log) /\ f.pc = "raise" THEN f.exc ELSE Ok)
                        = PostOutcome(cws[f.cw].postconds[f.log[a].i], obj[t],
                                      Snapshot(f.cw, f.self0))

\* C18 witness: two invocations of the same wrapper are in progress on two
\* receivers of different size; the second captured its snapshot after the
\* first, leaving it in the wrapper's attribute, and the first has since
\* passed its postcondition old['size'] + 1 == self.size and returns.
C18_Witness ==
    \E f \in FramesOf(1), g \in FramesOf(2) :
        /\ f.cw = g.cw
        /\ Captured(g)
        /\ f.pc = "return"
        /\ f.oldvals # g.oldvals
        /\ cws[f.cw].oldvals = g.oldvals
        /\ \E a \in DOMAIN f.log :
              f.log[a].k = "post" /\ cws[f.cw].postconds[f.log[a].i].pred = "inc"

\* C19 as claimed: a condition passes only when the result of its predicate
\* is exactly True: an evaluation with any other result, in either phase, is
\* the last of its invocation, which raises in that phase, and unless the
\* predicate itself raised, raises the failure the condition stands for.
C19_AsClaimed ==
    \A t \in Threads : \A f \in FramesOf(t) : \A a \in DOMAIN f.log :
        LET e == f.log[a]
            v == IF e.k = "pre"
                 THEN pre_value(cws[f.cw].preconds[e.i], f.self0, f.oldvals)
                 ELSE post_value(cws[f.cw].postconds[e.i], obj[t], f.oldvals)
        IN (e.k \in {"pre", "post"} /\ v # "True") =>
              /\ a = Len(f.log)
              /\ f.pc = "raise"
              /\ f.at = e.k
              /\ ~IsException(v) =>
                    f.exc = IF e.k = "pre" THEN pre_raise(cws[f.cw].preconds[e.i])
                            ELSE post_raise(cws[f.cw].postconds[e.i])

\* The capture functions of the list olds that give a value for key k on the
\* receiver self, by their place in the list.
Givers(olds, k, self) == {i \in DOMAIN olds : k \in DOMAIN Capture(olds[i], self)}

\* The greatest element of a non-empty set of numbers.
Latest(S) == CHOOSE i \in S : \A j \in S : j <= i

\* C20: the snapshot of an invocation holds exactly the keys its wrapper's
\* capture functions give on the receiver as it was when the invocation
\* began, each with the value of the capture function registered last among
\* those giving that key; nothing in it comes from an earlier invocation.
C20_SnapshotBuiltFresh ==
    \A f \in AllFrames :
        Captured(f) =>
            LET olds == lists[cws[f.cw].olds]
            IN /\ DOMAIN f.oldvals =
                     {k \in {"size", "capacity"} : Givers(olds, k, f.self0) # {}}
               /\ \A k \in DOMAIN f.oldvals :
                     f.oldvals[k] =
                        Capture(olds[Latest(Givers(olds, k, f.self0))], f.self0)[k]

\* C20 witness: the second invocation of a wrapper with two capture
\* functions that give different values for the key size, on a receiver that
\* the first invocation changed, has built its snapshot, which differs from
\* the one the first invocation built.
C20_Witness ==
    \E t \in Threads : \E f \in FramesOf(t) :
        LET olds == lists[cws[f.cw].olds]
        IN /\ ncalls[t] = 2
           /\ f.self0.size = 1
           /\ Len(olds) = 2
           /\ Capture(olds[1], f.self0)["size"] # Capture(olds[2], f.self0)["size"]
           /\ f.pc = "return"
           /\ f.oldvals["size"] = Capture(olds[2], f.self0)["size"]
           /\ f.oldvals # Snapshot(f.cw, [f.self0 EXCEPT !.size = 0])

====
